---- MODULE Spec2Model ----
(***************************************************************************)
(* GalvoObjectivePiezo (src/hardware/interfuse/galvo_objective_piezo.py):  *)
(* the interfuse that adds depth scanning through an objective piezo to a  *)
(* two-axis galvo scanner.                                                 *)
(*                                                                         *)
(* Numbers.  Python floats are carried in exact fixed point: a float f is  *)
(* the integer f * 10^6 (Fix).  A qudi position of 20e-6 m is 20, a piezo  *)
(* voltage of 70.0 is 70000000.  Comparisons are comparisons of the raw    *)
(* numbers, as in the code; rounding of the binary floats is not carried   *)
(* there.  It is carried where it matters: the two piezo conversions are   *)
(* modelled a second time in binary64 arithmetic (ConvSpec).               *)
(*                                                                         *)
(* Calls.  The module is single threaded and every method runs to its end  *)
(* before the next one starts, so a method is one action.  The action      *)
(* leaves in `call` what the caller and the two devices saw of it: the     *)
(* method, its arguments, its result (a return value or a raised           *)
(* exception) and, in order, every call it made on the galvo or the piezo. *)
(* The caller then drops that record (Discard) before its next call.       *)
(*                                                                         *)
(* The pulse generator (src/hardware/kolkowitz/pulse_streamer.py) is the   *)
(* variable `pulser`, with a specification of its own (PulserSpec).        *)
(***************************************************************************)
EXTENDS Integers, Sequences, FiniteSets, TLC

VARIABLES
    piezo_position_ranges,  \* self._piezo_position_ranges
    piezo_voltage_ranges,   \* self._piezo_voltage_ranges
    piezo,                  \* the E709 behind self._piezo: connected, svo, sva
    call,                   \* the call in progress or just finished
    pulser                  \* the Pulser object: current_status, _sequence, ...

vars == <<piezo_position_ranges, piezo_voltage_ranges, piezo, call, pulser>>

----------------------------------------------------------------------------
(* Bounds and input sets *)

\* longest scan path the caller sends (samples per axis)
MaxLen == 2

\* number of decimal digits the fixed point keeps: Fix(f) = f * 10^6
Fix(f) == f * 1000000

\* x and y positions of a path sample
XYVals == {0, 1}

\* z positions (qudi, metres): 0 m, 20e-6 m, 60e-6 m
ZVals == {0, 20, 60}

\* photon counts the galvo reports for one sample
CountVals == {5, 6}

\* the (low, high) intervals a configuration or a caller supplies for z
RangeA == <<Fix(0), Fix(100)>>
RangeB == <<Fix(40), Fix(60)>>
Intervals == {RangeA, RangeB}

\* the (low, high) interval the caller supplies for each galvo axis
GalvoInterval == <<Fix(-1), Fix(1)>>

\* A stored list of intervals is [nested, iv]: [low, high] itself when not
\* nested, [[low, high]] (what posRange[2:3] yields) when nested.
Nested(iv) == [nested |-> TRUE, iv |-> iv]

\* all sequences over S of length n
SeqsOfLen(S, n) == [1..n -> S]

\* Python values: an int status, a counts array, None, or a raised exception
PyInt(n) == [kind |-> "int", val |-> <<n>>, exc |-> ""]
PyCounts(c) == [kind |-> "counts", val |-> c, exc |-> ""]
PyNone == [kind |-> "none", val |-> <<>>, exc |-> ""]
PyRaise(e) == [kind |-> "raise", val |-> <<>>, exc |-> e]

NoCall ==
    [op |-> "idle", args |-> <<>>, result |-> PyNone, cls |-> "", calls |-> <<>>]

\* one call on a device, as the device sees it: the function, its arguments,
\* what it gave back, and the servo state of the piezo when it arrived
HwCall(dev, fn, arg, ret, svo) ==
    [dev |-> dev, fn |-> fn, arg |-> arg, ret |-> ret, svo |-> svo]

----------------------------------------------------------------------------
(* The piezo conversions *)

MicronsPerMeter == 1000000
PiezoOffset == 50

\* voltage = qudi_position * 10**6 + 50
_piezo_qudi_position_to_pi_voltage(qudi_position) ==
    LET micron_qudi_position == qudi_position * MicronsPerMeter
    IN  micron_qudi_position + Fix(PiezoOffset)

\* position = (pi_position - 50) * 10**-6; in the fixed point the product
\* with 10**-6 is the division by 10^6, exact for a reading in whole microns
_piezo_pi_position_to_qudi_position(pi_position) ==
    LET qudi_micron_position == pi_position - Fix(PiezoOffset)
    IN  qudi_micron_position \div MicronsPerMeter

----------------------------------------------------------------------------
(* on_activate: self._piezo_axis = self._piezo.axes[0] *)
piezo_axis == "1"

\* _set_piezo_position with the servo left as it is: the SVO call is missing
_set_piezo_position_no_svo(pz, ranges, position, how) ==
    LET voltage == _piezo_qudi_position_to_pi_voltage(position)
        svaCall(r) == HwCall("piezo", "SVA", <<piezo_axis, voltage>>, r, pz.svo)
    IN  IF ranges.nested
        THEN [exc |-> "IndexError", calls |-> <<>>, pz |-> pz]
        ELSE IF (voltage < ranges.iv[1]) \/ (voltage > ranges.iv[2])
        THEN [exc |-> "", calls |-> <<>>, pz |-> pz]
        ELSE IF how = "sva_raise"
        THEN [exc |-> "GCSError", calls |-> <<svaCall(PyRaise("GCSError"))>>,
              pz |-> pz]
        ELSE [exc |-> "", calls |-> <<svaCall(PyNone)>>,
              pz |-> [pz EXCEPT !.sva = <<voltage>>]]

\* _set_piezo_position that skips a write of the voltage written last
_set_piezo_position_skip_repeat(pz, ranges, position, how) ==
    LET voltage == _piezo_qudi_position_to_pi_voltage(position)
        svoCall(r) == HwCall("piezo", "SVO", <<piezo_axis, FALSE>>, r, pz.svo)
        servoOff == [pz EXCEPT !.svo = FALSE]
        svaCall(r) ==
            HwCall("piezo", "SVA", <<piezo_axis, voltage>>, r, servoOff.svo)
    IN  IF ranges.nested
        THEN [exc |-> "IndexError", calls |-> <<>>, pz |-> pz]
        ELSE IF (voltage < ranges.iv[1]) \/ (voltage > ranges.iv[2])
        THEN [exc |-> "", calls |-> <<>>, pz |-> pz]
        ELSE IF pz.sva = <<voltage>>
        THEN [exc |-> "", calls |-> <<>>, pz |-> pz]
        ELSE IF how = "svo_raise"
        THEN [exc |-> "GCSError", calls |-> <<svoCall(PyRaise("GCSError"))>>,
              pz |-> pz]
        ELSE IF how = "sva_raise"
        THEN [exc |-> "GCSError",
              calls |-> <<svoCall(PyNone), svaCall(PyRaise("GCSError"))>>,
              pz |-> servoOff]
        ELSE [exc |-> "", calls |-> <<svoCall(PyNone), svaCall(PyNone)>>,
              pz |-> [servoOff EXCEPT !.sva = <<voltage>>]]

(***************************************************************************)
(* _set_piezo_position(position).  `how` is what the controller will do to *)
(* the calls: "ok", "svo_raise" (SVO raises GCSError) or "sva_raise" (SVA   *)
(* raises).  Gives the exception raised ("" for none), the calls made and   *)
(* the piezo afterwards.                                                   *)
(***************************************************************************)
_set_piezo_position(pz, ranges, position, how) ==
    LET voltage == _piezo_qudi_position_to_pi_voltage(position)
        \* self._piezo.SVO(self._piezo_axis, False)
        svoCall(r) == HwCall("piezo", "SVO", <<piezo_axis, FALSE>>, r, pz.svo)
        servoOff == [pz EXCEPT !.svo = FALSE]
        \* self._piezo.SVA(self._piezo_axis, voltage)
        svaCall(r) ==
            HwCall("piezo", "SVA", <<piezo_axis, voltage>>, r, servoOff.svo)
    IN  IF ranges.nested
        THEN \* [[low, high]][1]: list index out of range
             [exc |-> "IndexError", calls |-> <<>>, pz |-> pz]
        ELSE LET piezo_vol_min == ranges.iv[1]
                 piezo_vol_max == ranges.iv[2]
             IN  IF (voltage < piezo_vol_min) \/ (voltage > piezo_vol_max)
                 THEN [exc |-> "", calls |-> <<>>, pz |-> pz]
                 ELSE IF how = "svo_raise"
                 THEN [exc |-> "GCSError",
                       calls |-> <<svoCall(PyRaise("GCSError"))>>,
                       pz |-> pz]
                 ELSE IF how = "sva_raise"
                 THEN [exc |-> "GCSError",
                       calls |-> <<svoCall(PyNone), svaCall(PyRaise("GCSError"))>>,
                       pz |-> servoOff]
                 ELSE [exc |-> "",
                       calls |-> <<svoCall(PyNone), svaCall(PyNone)>>,
                       pz |-> [servoOff EXCEPT !.sva = <<voltage>>]]

----------------------------------------------------------------------------
(* What the devices do to one scan_line call *)

\* the two samples the galvo returns for a 2-sample line; the two differ, so
\* that the first can be told from the second
SamplePairs == {s \in SeqsOfLen(CountVals, 2) : s[1] # s[2]}

Hows == {"svo_raise", "sva_raise", "scan_raise", "scan_err"}

\* failAt = i > 0: the device call of kind `how` fails when made for index i
\* (for a lateral scan, any i > 0 fails its one line scan); samples[i] is what
\* the galvo acquires for index i
Envs(k) ==
    {[failAt |-> f, how |-> h, samples |-> s] :
        f \in 0..k, h \in Hows \cup {"ok"}, s \in SeqsOfLen(SamplePairs, k)}

EnvOk(env) == (env.failAt = 0) <=> (env.how = "ok")

PiezoHow(env, i) ==
    IF env.failAt = i /\ env.how \in {"svo_raise", "sva_raise"}
    THEN env.how ELSE "ok"

\* self._galvo.scan_line(path, pixel_clock): its return value (counts, the
\* int -1 on an error it reports, or the exception it raises)
GalvoScanLine(n, counts, fails, how) ==
    IF fails /\ how = "scan_raise" THEN PyRaise("HardwareError")
    ELSE IF fails /\ how = "scan_err" THEN PyInt(-1)
    ELSE PyCounts(counts)

\* both rows filled from both coordinates
galvo_vals_mixed(x, y) == << <<x, y>>, <<x, y>> >>

\* numpy.vstack(([x, x], [y, y])): two samples, both (x, y)
galvo_vals(x, y) == << <<x, x>>, <<y, y>> >>

\* the acquisition's value taken as it comes: the status -1 becomes a count
FirstSample_unchecked(got) ==
    [exc |-> "", val |-> got.val[1]]

\* [...][0, :] on what the galvo's scan_line returned: the first of the two
\* samples; on the int -1 "'int' object is not subscriptable"
FirstSample(got) ==
    IF got.kind = "int" THEN [exc |-> "TypeError", val |-> 0]
    ELSE [exc |-> "", val |-> got.val[1]]

----------------------------------------------------------------------------
(* _scan_z_line: the loop from index i on; acc holds the calls made, the   *)
(* counts stacked and the piezo so far.                                    *)
RECURSIVE ScanZLoop(_, _, _, _, _, _, _, _)
ScanZLoop(i, acc, x, y, z_path, pixel_clock, ranges, env) ==
    IF i > Len(z_path)
    THEN [exc |-> "", calls |-> acc.calls, pz |-> acc.pz, counts |-> acc.counts]
    ELSE
    LET z_pos == z_path[i]
        w == _set_piezo_position(acc.pz, ranges, z_pos, PiezoHow(env, i))
        got == GalvoScanLine(2, env.samples[i], env.failAt = i, env.how)
        scanCall == HwCall("galvo", "scan_line", <<galvo_vals(x, y), pixel_clock>>,
                           got, w.pz.svo)
        first == FirstSample(got)
        calls == acc.calls \o w.calls
    IN  IF w.exc # ""
        THEN [exc |-> w.exc, calls |-> calls, pz |-> w.pz, counts |-> acc.counts]
        ELSE IF got.kind = "raise"
        THEN [exc |-> got.exc, calls |-> Append(calls, scanCall),
              pz |-> w.pz, counts |-> acc.counts]
        ELSE IF first.exc # ""
        THEN [exc |-> first.exc, calls |-> Append(calls, scanCall),
              pz |-> w.pz, counts |-> acc.counts]
        ELSE LET new_count == first.val
             IN  ScanZLoop(i + 1,
                           [calls |-> Append(calls, scanCall),
                            pz |-> w.pz,
                            counts |-> Append(acc.counts, new_count)],
                           x, y, z_path, pixel_clock, ranges, env)

\* _scan_z_line has no return statement: when the loop ends it gives None,
\* and the counts it stacked are dropped with its frame
_scan_z_line(x, y, z_path, pixel_clock, pz, ranges, env) ==
    LET r == ScanZLoop(1, [calls |-> <<>>, pz |-> pz, counts |-> <<>>],
                       x, y, z_path, pixel_clock, ranges, env)
    IN  [ret |-> IF r.exc # "" THEN PyRaise(r.exc) ELSE PyNone,
         calls |-> r.calls, pz |-> r.pz, counts |-> r.counts]

----------------------------------------------------------------------------
(* scan_line *)

\* list.count(v)
Count(vals, v) == Cardinality({i \in 1..Len(vals) : vals[i] = v})

\* xVals.count(firstX) == len(xVals)
ConstantAxis(vals) == Count(vals, vals[1]) = Len(vals)

\* classify with the check of y forgotten: "if constantX:"
classify_ignores_y(xVals, yVals, zVals) ==
    LET constantX == ConstantAxis(xVals)
        constantZ == ConstantAxis(zVals)
    IN  IF ~constantZ
        THEN IF constantX THEN "DepthScan" ELSE "Invalid"
        ELSE "LateralScan"

\* classify with the error branch forgotten: the scan falls through to the galvo
classify_no_invalid(xVals, yVals, zVals) ==
    LET constantX == ConstantAxis(xVals)
        constantY == ConstantAxis(yVals)
        constantZ == ConstantAxis(zVals)
    IN  IF ~constantZ /\ constantX /\ constantY
        THEN "DepthScan" ELSE "LateralScan"

\* lines 232-244: which scan this is
classify(xVals, yVals, zVals) ==
    LET constantX == ConstantAxis(xVals)
        constantY == ConstantAxis(yVals)
        constantZ == ConstantAxis(zVals)
    IN  IF ~constantZ
        THEN IF constantX /\ constantY THEN "DepthScan" ELSE "Invalid"
        ELSE "LateralScan"

\* a line_path: None, or the three rows of the array
NonePath == [none |-> TRUE, X |-> <<>>, Y |-> <<>>, Z |-> <<>>]
Path(X, Y, Z) == [none |-> FALSE, X |-> X, Y |-> Y, Z |-> Z]

\* the rows make a 2-d array only when they are equally long
IsArray(p) == Len(p.X) = Len(p.Y) /\ Len(p.Y) = Len(p.Z)

\* galvo_scan_line with the pixel_clock argument left at its default
galvo_scan_line_default_clock(galvo_path, pixel_clock, pz, env) ==
    LET k == Len(galvo_path[1])
        got == GalvoScanLine(k, [i \in 1..k |-> env.samples[i][1]],
                             env.failAt > 0, env.how)
    IN  [ret |-> got,
         calls |-> <<HwCall("galvo", "scan_line", <<galvo_path, FALSE>>,
                            got, pz.svo)>>]

\* ExtractError without the failure of xVals[0] on an empty row
ExtractError_no_first(line_path) ==
    IF ~IsArray(line_path) THEN "IndexError" ELSE ""

\* lines 219-230: the exception raised while the rows and their first values
\* are taken out of line_path ("" for none): line_path[0:2, :] on rows that
\* make no 2-d array, or xVals[0] on an empty row
ExtractError(line_path) ==
    IF ~IsArray(line_path) THEN "IndexError"
    ELSE IF Len(line_path.X) = 0 THEN "IndexError"
    ELSE ""

\* counts = self._galvo.scan_line(galvo_path, pixel_clock)
galvo_scan_line(galvo_path, pixel_clock, pz, env) ==
    LET k == Len(galvo_path[1])
        got == GalvoScanLine(k, [i \in 1..k |-> env.samples[i][1]],
                             env.failAt > 0, env.how)
    IN  [ret |-> got,
         calls |-> <<HwCall("galvo", "scan_line", <<galvo_path, pixel_clock>>,
                            got, pz.svo)>>]

scan_line(line_path, pixel_clock, pz, ranges, env) ==
    IF line_path.none
    THEN [ret |-> PyInt(-1), cls |-> "None", calls |-> <<>>, pz |-> pz]
    ELSE IF ExtractError(line_path) # ""
    THEN [ret |-> PyRaise(ExtractError(line_path)), cls |-> "Malformed",
          calls |-> <<>>, pz |-> pz]
    ELSE
    LET galvo_path == <<line_path.X, line_path.Y>>
        xVals == line_path.X
        yVals == line_path.Y
        zVals == line_path.Z
        firstX == xVals[1]
        firstY == yVals[1]
        cls == classify(xVals, yVals, zVals)
    IN  IF cls = "Invalid"
        THEN \* 'This module only supports scans in xy or z.'
             [ret |-> PyInt(-1), cls |-> cls, calls |-> <<>>, pz |-> pz]
        ELSE IF cls = "DepthScan"
        THEN \* counts = self._scan_z_line(firstX, firstY, zVals, pixel_clock)
             LET r == _scan_z_line(firstX, firstY, zVals, pixel_clock,
                                   pz, ranges, env)
             IN  [ret |-> r.ret, cls |-> cls, calls |-> r.calls, pz |-> r.pz]
        ELSE LET r == galvo_scan_line(galvo_path, pixel_clock, pz, env)
             IN  [ret |-> r.ret, cls |-> cls, calls |-> r.calls, pz |-> pz]

\* the paths a caller sends: None, every array of up to MaxLen samples, and
\* rows of unequal length
ArrayPaths ==
    UNION {{Path(X, Y, Z) : X \in SeqsOfLen(XYVals, k), Y \in SeqsOfLen(XYVals, k),
                            Z \in SeqsOfLen(ZVals, k)} : k \in 0..MaxLen}
RaggedPaths ==
    {Path([i \in 1..a |-> 0], [i \in 1..b |-> 0], [i \in 1..c |-> 0]) :
        a \in 0..MaxLen, b \in 0..MaxLen, c \in 0..MaxLen} \ ArrayPaths
Paths == {NonePath} \cup ArrayPaths \cup RaggedPaths

----------------------------------------------------------------------------
(* The other methods.  g is what the galvo does to the one call the method *)
(* makes on it: "ok" (status 0), "err" (status -1) or "raise".             *)

GalvoHows == {"ok", "err", "raise"}

GalvoStatus(g) ==
    IF g = "raise" THEN PyRaise("HardwareError")
    ELSE IF g = "err" THEN PyInt(-1)
    ELSE PyInt(0)

scanner_set_position(x, y, z, pz, ranges, g, how) ==
    LET galvoReturn == GalvoStatus(g)
        galvoCall == HwCall("galvo", "scanner_set_position", <<x, y>>,
                            galvoReturn, pz.svo)
        w == _set_piezo_position(pz, ranges, z, how)
    IN  IF galvoReturn.kind = "raise"
        THEN [ret |-> galvoReturn, calls |-> <<galvoCall>>, pz |-> pz]
        ELSE [ret |-> IF w.exc # "" THEN PyRaise(w.exc) ELSE galvoReturn,
              calls |-> <<galvoCall>> \o w.calls, pz |-> w.pz]

PyList(items) == [kind |-> "list", val |-> items, exc |-> ""]

\* the stored range as the Python list it is: [[lo, hi]] holds one interval,
\* [lo, hi] holds two numbers (a number is written <<n>>, an interval
\* <<lo, hi>>)
AsList(rng) ==
    IF rng.nested THEN <<rng.iv>> ELSE << <<rng.iv[1]>>, <<rng.iv[2]>> >>

\* what the galvo can report as its two position ranges
GalvoReports == {<<GalvoInterval, GalvoInterval>>, <<GalvoInterval, RangeA>>}

\* get_position_range: galvoRanges + piezoRanges, list concatenation;
\* the galvo raises, or gives its report
get_position_range(pos_ranges, pz, raises, report) ==
    LET galvoRanges == IF raises THEN PyRaise("HardwareError") ELSE PyList(report)
        galvoCall == HwCall("galvo", "get_position_range", <<>>, galvoRanges, pz.svo)
        piezoRanges == AsList(pos_ranges)
    IN  [ret |-> IF galvoRanges.kind = "raise" THEN galvoRanges
                 ELSE PyList(galvoRanges.val \o piezoRanges),
         calls |-> <<galvoCall>>]

\* what qPOS can report for the axis: 0, 50 or 70
PiezoReadings == {Fix(0), Fix(50), Fix(70)}

\* get_scanner_position with the piezo's reading passed on as it is
get_scanner_position_raw(pz, x, y, reading, how) ==
    LET galvoPos == IF how = "galvo_raise" THEN PyRaise("HardwareError")
                    ELSE PyList(<<x, y>>)
        galvoCall == HwCall("galvo", "get_scanner_position", <<>>, galvoPos, pz.svo)
        piezoPos == IF how = "qpos_raise" THEN PyRaise("GCSError")
                    ELSE PyList(<<reading>>)
        qposCall == HwCall("piezo", "qPOS", <<>>, piezoPos, pz.svo)
    IN  IF galvoPos.kind = "raise"
        THEN [ret |-> galvoPos, calls |-> <<galvoCall>>]
        ELSE IF piezoPos.kind = "raise"
        THEN [ret |-> piezoPos, calls |-> <<galvoCall, qposCall>>]
        ELSE [ret |-> PyList(galvoPos.val \o <<reading>>),
              calls |-> <<galvoCall, qposCall>>]

\* get_scanner_position: the galvo's [x, y], then qPOS()[axes[0]] converted
\* and appended.  `how` is "ok", "galvo_raise" or "qpos_raise".  (axes is
\* the axis list pipython holds since on_activate read it; reading it sends
\* nothing to the controller.)
get_scanner_position(pz, x, y, reading, how) ==
    LET galvoPos == IF how = "galvo_raise" THEN PyRaise("HardwareError")
                    ELSE PyList(<<x, y>>)
        galvoCall == HwCall("galvo", "get_scanner_position", <<>>, galvoPos, pz.svo)
        piezoPos == IF how = "qpos_raise" THEN PyRaise("GCSError")
                    ELSE PyList(<<reading>>)
        qposCall == HwCall("piezo", "qPOS", <<>>, piezoPos, pz.svo)
        qudi_piezo_pos == _piezo_pi_position_to_qudi_position(reading)
    IN  IF galvoPos.kind = "raise"
        THEN [ret |-> galvoPos, calls |-> <<galvoCall>>]
        ELSE IF piezoPos.kind = "raise"
        THEN [ret |-> piezoPos, calls |-> <<galvoCall, qposCall>>]
        ELSE [ret |-> PyList(galvoPos.val \o <<qudi_piezo_pos>>),
              calls |-> <<galvoCall, qposCall>>]

\* An optional argument is <<>> for None and <<v>> for the value v.
ClockFrequencies == {<<>>, <<1000>>}
Channels == {<<>>, <<"/Dev1/Ctr0">>}

\* set_up_scanner_clock: the galvo's set_up_scanner_clock with the caller's
\* two arguments, and its return value
set_up_scanner_clock(clock_frequency, clock_channel, pz, g) ==
    LET galvoReturn == GalvoStatus(g)
    IN  [ret |-> galvoReturn,
         calls |-> <<HwCall("galvo", "set_up_scanner_clock",
                            <<clock_frequency, clock_channel>>, galvoReturn,
                            pz.svo)>>]

\* set_up_scanner: the galvo's set_up_scanner called with
\* counter_channels=None, sources=None, clock_channel=None,
\* scanner_ao_channels=None, and its return value
set_up_scanner(counter_channels, sources, clock_channel, scanner_ao_channels, pz, g) ==
    LET galvoReturn == GalvoStatus(g)
    IN  [ret |-> galvoReturn,
         calls |-> <<HwCall("galvo", "set_up_scanner",
                            <<<<>>, <<>>, <<>>, <<>>>>, galvoReturn, pz.svo)>>]

\* close_scanner: the galvo's close_scanner and its return value
close_scanner(pz, g) ==
    LET galvoReturn == GalvoStatus(g)
    IN  [ret |-> galvoReturn,
         calls |-> <<HwCall("galvo", "close_scanner", <<>>, galvoReturn, pz.svo)>>]

\* close_scanner_clock: the galvo's close_scanner_clock and its return value
close_scanner_clock(pz, g) ==
    LET galvoReturn == GalvoStatus(g)
    IN  [ret |-> galvoReturn,
         calls |-> <<HwCall("galvo", "close_scanner_clock", <<>>, galvoReturn,
                            pz.svo)>>]

\* posRange[2:3][:] : the list holding the third interval
ThirdAsList(rng) == Nested(SubSeq(rng, 3, 3)[1])

set_position_range(posRange, pos_ranges, pz, g) ==
    LET galvoReturn == GalvoStatus(g)
        galvoCall == HwCall("galvo", "set_position_range",
                            SubSeq(posRange, 1, 2), galvoReturn, pz.svo)
    IN  [ret |-> galvoReturn, calls |-> <<galvoCall>>,
         ranges |-> IF galvoReturn.kind = "raise" THEN pos_ranges
                    ELSE ThirdAsList(posRange)]

set_voltage_range(volRange, vol_ranges, pz, g) ==
    LET galvoReturn == GalvoStatus(g)
        galvoCall == HwCall("galvo", "set_voltage_range",
                            SubSeq(volRange, 1, 2), galvoReturn, pz.svo)
    IN  [ret |-> galvoReturn, calls |-> <<galvoCall>>,
         ranges |-> IF galvoReturn.kind = "raise" THEN vol_ranges
                    ELSE ThirdAsList(volRange)]

\* reset_hardware with a failing CloseConnection caught and dropped
reset_hardware_swallow_close(pz, g, c) ==
    LET galvoReturn == GalvoStatus(g)
        galvoCall == HwCall("galvo", "reset_hardware", <<>>, galvoReturn, pz.svo)
        closeRet == IF c = "raise" THEN PyRaise("GCSError") ELSE PyNone
        closeCall == HwCall("piezo", "CloseConnection", <<>>, closeRet, pz.svo)
    IN  IF galvoReturn.kind = "raise"
        THEN [ret |-> galvoReturn, calls |-> <<galvoCall>>, pz |-> pz]
        ELSE [ret |-> galvoReturn, calls |-> <<galvoCall, closeCall>>,
              pz |-> IF closeRet.kind = "raise" THEN pz
                     ELSE [pz EXCEPT !.connected = FALSE]]

\* c is what the piezo does to CloseConnection: "ok" or "raise"
reset_hardware(pz, g, c) ==
    LET galvoReturn == GalvoStatus(g)
        galvoCall == HwCall("galvo", "reset_hardware", <<>>, galvoReturn, pz.svo)
        closeRet == IF c = "raise" THEN PyRaise("GCSError") ELSE PyNone
        closeCall == HwCall("piezo", "CloseConnection", <<>>, closeRet, pz.svo)
    IN  IF galvoReturn.kind = "raise"
        THEN [ret |-> galvoReturn, calls |-> <<galvoCall>>, pz |-> pz]
        ELSE IF closeRet.kind = "raise"
        THEN [ret |-> closeRet, calls |-> <<galvoCall, closeCall>>, pz |-> pz]
        ELSE [ret |-> galvoReturn, calls |-> <<galvoCall, closeCall>>,
              pz |-> [pz EXCEPT !.connected = FALSE]]

\* on_deactivate: self.reset_hardware(), whose return value is dropped; only
\* an exception it raises reaches the caller
on_deactivate(pz, g, c) ==
    LET r == reset_hardware(pz, g, c)
    IN  [ret |-> IF r.ret.kind = "raise" THEN r.ret ELSE PyNone,
         calls |-> r.calls, pz |-> r.pz]

----------------------------------------------------------------------------
(***************************************************************************)
(* The piezo conversions in Python's float arithmetic.                     *)
(*                                                                         *)
(* A Python float is an IEEE 754 binary64 number.  Here it is the record   *)
(* [neg, m, e] that stands for (-1)^neg * m * 2^e, where m is a natural    *)
(* number written in base 2^10, lowest limb first, without leading zeros;  *)
(* m is odd, or empty for 0, so that equal numbers are equal records.      *)
(* Every operation computes the exact result and rounds it to 53           *)
(* significant bits, to the nearest with ties to even.  All numbers met    *)
(* here are far from the subnormal and the overflow range.                 *)
(***************************************************************************)

\* significant bits of a binary64 number
MantissaBits == 53

\* bits of a limb
LimbBits == 10
Base == 2^LimbBits

\* limb i of a, 0 above its top limb
At(a, i) == IF i <= Len(a) THEN a[i] ELSE 0

\* a without leading (high) zero limbs
TrimL(a) ==
    LET nz == {i \in 1..Len(a) : a[i] # 0}
    IN  IF nz = {} THEN <<>>
        ELSE SubSeq(a, 1, CHOOSE i \in nz : \A j \in nz : j <= i)

\* a natural number < 2^31 in limbs
RECURSIVE NatL(_)
NatL(n) == IF n = 0 THEN <<>> ELSE <<n % Base>> \o NatL(n \div Base)

\* the limbs of the number whose limbs from i on are s[i], s[i+1], ... with
\* values that may exceed the base, plus the carry c
RECURSIVE Carry(_, _, _)
Carry(s, i, c) ==
    IF i > Len(s)
    THEN IF c = 0 THEN <<>> ELSE <<c % Base>> \o Carry(s, i, c \div Base)
    ELSE LET v == s[i] + c
         IN  <<v % Base>> \o Carry(s, i + 1, v \div Base)

\* a + b
AddL(a, b) ==
    LET n == IF Len(a) < Len(b) THEN Len(b) ELSE Len(a)
    IN  TrimL(Carry([i \in 1..n |-> At(a, i) + At(b, i)], 1, 0))

\* a - b for a >= b, from limb i on with the borrow br
RECURSIVE Borrow(_, _, _, _)
Borrow(a, b, i, br) ==
    IF i > Len(a) THEN <<>>
    ELSE LET d == a[i] - At(b, i) - br
         IN  IF d < 0 THEN <<d + Base>> \o Borrow(a, b, i + 1, 1)
             ELSE <<d>> \o Borrow(a, b, i + 1, 0)

SubL(a, b) == TrimL(Borrow(a, b, 1, 0))

\* a < b
LessL(a, b) ==
    IF Len(a) # Len(b) THEN Len(a) < Len(b)
    ELSE LET differ == {i \in 1..Len(a) : a[i] # b[i]}
         IN  /\ differ # {}
             /\ LET top == CHOOSE i \in differ : \A j \in differ : j <= i
                IN  a[top] < b[top]

\* the sum of a[i] * b[k + 1 - i] over the limbs i, i+1, ... of a
RECURSIVE SumProd(_, _, _, _)
SumProd(a, b, k, i) ==
    IF i > Len(a) THEN 0
    ELSE (IF k + 1 - i >= 1 /\ k + 1 - i <= Len(b) THEN a[i] * b[k + 1 - i] ELSE 0)
         + SumProd(a, b, k, i + 1)

\* a * b
MulL(a, b) ==
    IF a = <<>> \/ b = <<>> THEN <<>>
    ELSE TrimL(Carry([k \in 1..(Len(a) + Len(b) - 1) |-> SumProd(a, b, k, 1)],
                     1, 0))

\* a * 2^k
ShiftLeft(a, k) ==
    LET q == k \div LimbBits
        r == k % LimbBits
    IN  IF a = <<>> THEN <<>>
        ELSE [i \in 1..q |-> 0]
             \o TrimL(Carry([i \in 1..Len(a) |-> a[i] * 2^r], 1, 0))

\* a divided by 2^k, the low k bits dropped
ShiftRight(a, k) ==
    LET q == k \div LimbBits
        r == k % LimbBits
        n == Len(a) - q
    IN  IF n <= 0 THEN <<>>
        ELSE TrimL([i \in 1..n |->
                      (a[i + q] \div 2^r)
                      + (At(a, i + q + 1) % 2^r) * 2^(LimbBits - r)])

\* bit i of a, bit 0 the lowest
Bit(a, i) == (At(a, (i \div LimbBits) + 1) \div 2^(i % LimbBits)) % 2

\* the number of bits of a
BitLen(a) ==
    IF a = <<>> THEN 0
    ELSE LimbBits * (Len(a) - 1)
         + (CHOOSE k \in 1..LimbBits :
               2^(k - 1) <= a[Len(a)] /\ a[Len(a)] < 2^k)

\* m rounded to MantissaBits bits, to nearest, ties to even: the rounded
\* number and the count of low bits dropped
Round(m) ==
    IF BitLen(m) <= MantissaBits THEN [m |-> m, shift |-> 0]
    ELSE LET shift == BitLen(m) - MantissaBits
             kept == ShiftRight(m, shift)
             half == Bit(m, shift - 1) = 1
             sticky == \E i \in 0..(shift - 2) : Bit(m, i) = 1
             up == half /\ (sticky \/ Bit(kept, 0) = 1)
         IN  [m |-> IF up THEN AddL(kept, <<1>>) ELSE kept, shift |-> shift]

\* the record of (-1)^neg * m * 2^e, m not 0: the low zero bits of m are
\* moved into e
Float(neg, m, e) ==
    LET low == CHOOSE i \in 0..(BitLen(m) - 1) :
                   Bit(m, i) = 1 /\ \A j \in 0..(i - 1) : Bit(m, j) = 0
    IN  [neg |-> neg, m |-> ShiftRight(m, low), e |-> e + low]

FloatZero == [neg |-> FALSE, m |-> <<>>, e |-> 0]

\* the float nearest to (-1)^neg * m * 2^e
FloatRound(neg, m, e) ==
    LET r == Round(m)
    IN  IF m = <<>> THEN FloatZero ELSE Float(neg, r.m, e + r.shift)

\* float(n) of an int n, |n| < 2^31
FloatOfInt(n) ==
    IF n = 0 THEN FloatZero
    ELSE Float(n < 0, NatL(IF n < 0 THEN -n ELSE n), 0)

\* num, from limb i down, divided by d < 2^20 by long division: r is the
\* remainder so far, q the quotient's limbs so far
RECURSIVE DivL(_, _, _, _, _)
DivL(num, i, d, r, q) ==
    IF i = 0 THEN [q |-> TrimL(q), r |-> r]
    ELSE LET x == r * Base + num[i]
         IN  DivL(num, i - 1, d, x % d, <<x \div d>> \o q)

\* the float nearest to n / d, for ints n and d with 0 < d < 2^20: what
\* Python makes of the literal "ne-6" when d = 10^6, and of 10**-6
FloatOfRatio(n, d) ==
    IF n = 0 THEN FloatZero
    ELSE LET num == ShiftLeft(NatL(IF n < 0 THEN -n ELSE n), 90)
             dv == DivL(num, Len(num), d, 0, <<>>)
             inexact == IF dv.r = 0 THEN <<>> ELSE <<1>>
         IN  FloatRound(n < 0, AddL(ShiftLeft(dv.q, 1), inexact), -91)

\* a * b on floats
FloatMul(a, b) == FloatRound(a.neg # b.neg, MulL(a.m, b.m), a.e + b.e)

\* the exact sum of two floats, not rounded: (-1)^neg * m * 2^e
ExactSum(a, b) ==
    LET e0 == IF a.e < b.e THEN a.e ELSE b.e
        ma == ShiftLeft(a.m, a.e - e0)
        mb == ShiftLeft(b.m, b.e - e0)
    IN  IF a.neg = b.neg
        THEN [neg |-> a.neg, m |-> AddL(ma, mb), e |-> e0]
        ELSE IF LessL(ma, mb)
        THEN [neg |-> b.neg, m |-> SubL(mb, ma), e |-> e0]
        ELSE [neg |-> a.neg, m |-> SubL(ma, mb), e |-> e0]

\* a + b and a - b on floats
FloatAdd(a, b) ==
    LET x == ExactSum(a, b) IN FloatRound(x.neg, x.m, x.e)
FloatSub(a, b) == FloatAdd(a, [b EXCEPT !.neg = (b.m # <<>>) /\ ~b.neg])

PyFloat(f) == [kind |-> "float", val |-> <<f>>, exc |-> ""]

\* 10**-6: Python raises the float 10.0 to -6.0, which gives the float
\* nearest to 1/10^6
TenToMinus6 == FloatOfRatio(1, MicronsPerMeter)

\* the piezo's reading turned into metres without the shift by 50
pi_position_to_qudi_position_no_offset(pi_position) ==
    FloatMul(pi_position, TenToMinus6)

\* _piezo_pi_position_to_qudi_position on floats
pi_position_to_qudi_position(pi_position) ==
    LET qudi_micron_position == FloatSub(pi_position, FloatOfInt(PiezoOffset))
        qudi_position == FloatMul(qudi_micron_position, TenToMinus6)
    IN  qudi_position

\* the voltage with the scale of millimetres
qudi_position_to_pi_voltage_millis(qudi_position) ==
    FloatAdd(FloatMul(qudi_position, FloatOfInt(1000)), FloatOfInt(PiezoOffset))

\* _piezo_qudi_position_to_pi_voltage on floats
qudi_position_to_pi_voltage(qudi_position) ==
    LET micron_qudi_position == FloatMul(qudi_position, FloatOfInt(MicronsPerMeter))
        offset_micron_qudi_position ==
            FloatAdd(micron_qudi_position, FloatOfInt(PiezoOffset))
    IN  offset_micron_qudi_position

----------------------------------------------------------------------------
(***************************************************************************)
(* Pulser (src/hardware/kolkowitz/pulse_streamer.py): the pulse generator. *)
(*                                                                         *)
(* `pulser` is the object: current_status, whether the attribute           *)
(* pulse_streamer exists (on_activate creates it), and the attributes      *)
(* _sequence and _num_repeat (<<>> until a sequence is written).  A method *)
(* gives the object afterwards, what the caller got and the calls made on  *)
(* the PulseStreamer.  `fail` is the position, among the calls the method  *)
(* would make on the device, of the one that raises; 0 if none does.       *)
(***************************************************************************)
_low == 0
_high == 1
_pulsestreamer_ip == "128.104.160.11"
_clock_channel == 0
_counter_gate_channel == 2
_green_aom_channel == 3

\* the object as __init__ leaves it
PulserConstructed ==
    [current_status |-> -1, pulse_streamer |-> FALSE,
     sequence |-> <<>>, num_repeat |-> <<>>]

\* one call on the PulseStreamer, as the device sees it
PsCall(fn, arg, ret) ==
    [dev |-> "pulse_streamer", fn |-> fn, arg |-> arg, ret |-> ret]

\* what the i-th device call of a method gives back
PsRet(i, fail) == IF i = fail THEN PyRaise("PulseStreamerError") ELSE PyNone

\* self.pulse_streamer when on_activate has not created it
NoStreamer(p) ==
    [p |-> p, ret |-> PyRaise("AttributeError"), calls |-> <<>>]

pulser_on(p, fail) ==
    IF ~p.pulse_streamer THEN NoStreamer(p)
    ELSE LET start == PsCall("startNow", <<>>, PsRet(1, fail))
         IN  IF fail = 1
             THEN [p |-> p, ret |-> start.ret, calls |-> <<start>>]
             ELSE [p |-> [p EXCEPT !.current_status = 1],
                   ret |-> PyInt(0), calls |-> <<start>>]

pulser_off(p, fail) ==
    IF ~p.pulse_streamer THEN NoStreamer(p)
    ELSE LET const == PsCall("constant", <<"OutputState.ZERO">>, PsRet(1, fail))
         IN  IF fail = 1
             THEN [p |-> p, ret |-> const.ret, calls |-> <<const>>]
             ELSE [p |-> [p EXCEPT !.current_status = 0],
                   ret |-> PyInt(0), calls |-> <<const>>]

\* on_activate: PulseStreamer(ip) is its first device call, the constant()
\* of pulser_off its second
pulser_on_activate(p, fail) ==
    LET connect == PsCall("PulseStreamer", <<_pulsestreamer_ip>>,
                          PsRet(1, fail))
    IN  IF fail = 1
        THEN [p |-> p, ret |-> connect.ret, calls |-> <<connect>>]
        ELSE LET off == pulser_off([p EXCEPT !.pulse_streamer = TRUE],
                                   IF fail = 2 THEN 1 ELSE 0)
             IN  IF off.ret.kind = "raise"
                 THEN [p |-> off.p, ret |-> off.ret,
                       calls |-> <<connect>> \o off.calls]
                 ELSE [p |-> [off.p EXCEPT !.current_status = 0],
                       ret |-> PyNone, calls |-> <<connect>> \o off.calls]

TriggerArgs == <<"TriggerStart.SOFTWARE", "TriggerRearm.AUTO">>

write_sequence_starts(name, sequence, numRepeat, p, fail) ==
    LET p1 == [p EXCEPT !.sequence = <<sequence>>,
                        !.num_repeat = <<numRepeat>>]
        trigger == PsCall("setTrigger", TriggerArgs, PsRet(1, fail))
        stream == PsCall("stream", <<sequence, numRepeat>>, PsRet(2, fail))
    IN  IF ~p.pulse_streamer THEN NoStreamer(p1)
        ELSE IF fail = 1
        THEN [p |-> p1, ret |-> trigger.ret, calls |-> <<trigger>>]
        ELSE IF fail = 2
        THEN [p |-> p1, ret |-> stream.ret, calls |-> <<trigger, stream>>]
        ELSE [p |-> [p1 EXCEPT !.current_status = 1], ret |-> PyInt(0),
              calls |-> <<trigger, stream>>]

write_sequence(name, sequence, numRepeat, p, fail) ==
    LET p1 == [p EXCEPT !.sequence = <<sequence>>,
                        !.num_repeat = <<numRepeat>>]
        trigger == PsCall("setTrigger", TriggerArgs, PsRet(1, fail))
        stream == PsCall("stream", <<sequence, numRepeat>>, PsRet(2, fail))
    IN  IF ~p.pulse_streamer THEN NoStreamer(p1)
        ELSE IF fail = 1
        THEN [p |-> p1, ret |-> trigger.ret, calls |-> <<trigger>>]
        ELSE IF fail = 2
        THEN [p |-> p1, ret |-> stream.ret, calls |-> <<trigger, stream>>]
        ELSE [p |-> p1, ret |-> PyInt(0), calls |-> <<trigger, stream>>]

\* stream_immediate: setTrigger, stream, then pulser_on (its startNow is the
\* third device call); it has no return statement
stream_immediate(sequence, numRepeat, p, fail) ==
    LET p1 == [p EXCEPT !.sequence = <<sequence>>,
                        !.num_repeat = <<numRepeat>>]
        trigger == PsCall("setTrigger", TriggerArgs, PsRet(1, fail))
        stream == PsCall("stream", <<sequence, numRepeat>>, PsRet(2, fail))
    IN  IF ~p.pulse_streamer THEN NoStreamer(p)
        ELSE IF fail = 1
        THEN [p |-> p, ret |-> trigger.ret, calls |-> <<trigger>>]
        ELSE IF fail = 2
        THEN [p |-> p1, ret |-> stream.ret, calls |-> <<trigger, stream>>]
        ELSE LET on == pulser_on(p1, IF fail = 3 THEN 1 ELSE 0)
             IN  [p |-> on.p,
                  ret |-> IF on.ret.kind = "raise" THEN on.ret ELSE PyNone,
                  calls |-> <<trigger, stream>> \o on.calls]

(* Sequences.  A pulsestreamer Sequence is, per channel that was set, the  *)
(* train last given for it: a list of (duration, level) segments.          *)
EmptySequence == [c \in {} |-> <<>>]

setDigital(seq, channel, train) ==
    [c \in DOMAIN seq \cup {channel} |->
        IF c = channel THEN train ELSE seq[c]]

PySequence(seq) == [kind |-> "sequence", val |-> seq, exc |-> ""]

\* the length of the clock pulse: the literal 100 of both trains
ClockPulse == 100

\* readout is <<>> for None, <<r>> for the number r
get_cont_illum_clock_seq_always_gated(period, readout) ==
    LET seq1 == setDigital(EmptySequence, _clock_channel,
                           <<<<ClockPulse, _high>>,
                             <<period - ClockPulse, _low>>>>)
        seq2 == setDigital(seq1, _counter_gate_channel,
                           IF readout # <<>>
                           THEN <<<<period - readout[1], _low>>,
                                  <<readout[1], _high>>>>
                           ELSE <<<<period, _high>>>>)
    IN  setDigital(seq2, _green_aom_channel, <<<<period, _high>>>>)

get_cont_illum_clock_seq(period, readout) ==
    LET seq1 == setDigital(EmptySequence, _clock_channel,
                           <<<<ClockPulse, _high>>,
                             <<period - ClockPulse, _low>>>>)
        seq2 == IF readout # <<>>
                THEN setDigital(seq1, _counter_gate_channel,
                                <<<<period - readout[1], _low>>,
                                  <<readout[1], _high>>>>)
                ELSE seq1
    IN  setDigital(seq2, _green_aom_channel, <<<<period, _high>>>>)

\* cont_illum_clock of pulse_sequence_library.py: its first statement, line
\* 38, evaluates the names clockChannel, counterGateChannel and aomChannel,
\* which nothing defines, so it raises NameError before it builds anything
cont_illum_clock(channelDict, period, readout) == PyRaise("NameError")

----------------------------------------------------------------------------
(* Init: the module constructed from its configuration and activated *)

Init ==
    /\ \E nested \in BOOLEAN, p \in Intervals, v \in Intervals :
          /\ piezo_position_ranges = [nested |-> nested, iv |-> p]
          /\ piezo_voltage_ranges = [nested |-> nested, iv |-> v]
    /\ \E svo \in BOOLEAN :
          piezo = [connected |-> TRUE, svo |-> svo, sva |-> <<>>]
    /\ call = NoCall
    /\ pulser = PulserConstructed

Discard ==
    /\ call.op # "idle"
    /\ call' = NoCall
    /\ UNCHANGED <<pulser, piezo_position_ranges, piezo_voltage_ranges, piezo>>

\* every outcome the devices can give one scan_line call
ScanLineOutcomes(line_path, pixel_clock) ==
    {scan_line(line_path, pixel_clock, piezo, piezo_position_ranges, env) :
        env \in {e \in Envs(Len(line_path.Z)) : EnvOk(e)}}

ScanLine ==
    /\ call.op = "idle"
    /\ piezo.connected
    /\ \E line_path \in Paths, pixel_clock \in BOOLEAN :
       \E r \in ScanLineOutcomes(line_path, pixel_clock) :
          /\ call' = [op |-> "scan_line",
                      args |-> <<line_path, pixel_clock>>,
                      result |-> r.ret, cls |-> r.cls, calls |-> r.calls]
          /\ piezo' = r.pz
    /\ UNCHANGED <<pulser, piezo_position_ranges, piezo_voltage_ranges>>

ScannerSetPosition ==
    /\ call.op = "idle"
    /\ piezo.connected
    /\ \E x \in XYVals, y \in XYVals, z \in ZVals, g \in GalvoHows,
          how \in {"ok", "svo_raise", "sva_raise"} :
          LET r == scanner_set_position(x, y, z, piezo, piezo_position_ranges,
                                        g, how)
          IN  /\ call' = [op |-> "scanner_set_position", args |-> <<x, y, z>>,
                          result |-> r.ret, cls |-> "", calls |-> r.calls]
              /\ piezo' = r.pz
    /\ UNCHANGED <<pulser, piezo_position_ranges, piezo_voltage_ranges>>

\* the 3 x 2 lists a caller passes to the range setters
RangeArgs == {<<GalvoInterval, GalvoInterval, iv>> : iv \in Intervals}

SetPositionRange ==
    /\ call.op = "idle"
    /\ piezo.connected
    /\ \E posRange \in RangeArgs, g \in GalvoHows :
          LET r == set_position_range(posRange, piezo_position_ranges, piezo, g)
          IN  /\ call' = [op |-> "set_position_range", args |-> <<posRange>>,
                          result |-> r.ret, cls |-> "", calls |-> r.calls]
              /\ piezo_position_ranges' = r.ranges
    /\ UNCHANGED <<pulser, piezo_voltage_ranges, piezo>>

\* set_voltage_range storing into the position range
SetVoltageRange_into_position ==
    /\ call.op = "idle"
    /\ piezo.connected
    /\ \E volRange \in RangeArgs, g \in GalvoHows :
          LET r == set_voltage_range(volRange, piezo_position_ranges, piezo, g)
          IN  /\ call' = [op |-> "set_voltage_range", args |-> <<volRange>>,
                          result |-> r.ret, cls |-> "", calls |-> r.calls]
              /\ piezo_position_ranges' = r.ranges
    /\ UNCHANGED <<pulser, piezo_voltage_ranges, piezo>>

SetVoltageRange ==
    /\ call.op = "idle"
    /\ piezo.connected
    /\ \E volRange \in RangeArgs, g \in GalvoHows :
          LET r == set_voltage_range(volRange, piezo_voltage_ranges, piezo, g)
          IN  /\ call' = [op |-> "set_voltage_range", args |-> <<volRange>>,
                          result |-> r.ret, cls |-> "", calls |-> r.calls]
              /\ piezo_voltage_ranges' = r.ranges
    /\ UNCHANGED <<pulser, piezo_position_ranges, piezo>>

GetPositionRange ==
    /\ call.op = "idle"
    /\ piezo.connected
    /\ \E raises \in BOOLEAN, report \in GalvoReports :
          LET r == get_position_range(piezo_position_ranges, piezo, raises, report)
          IN  call' = [op |-> "get_position_range", args |-> <<>>,
                       result |-> r.ret, cls |-> "", calls |-> r.calls]
    /\ UNCHANGED <<pulser, piezo_position_ranges, piezo_voltage_ranges, piezo>>

GetScannerPosition ==
    /\ call.op = "idle"
    /\ piezo.connected
    /\ \E x \in XYVals, y \in XYVals, reading \in PiezoReadings,
          how \in {"ok", "galvo_raise", "qpos_raise"} :
          LET r == get_scanner_position(piezo, x, y, reading, how)
          IN  call' = [op |-> "get_scanner_position", args |-> <<>>,
                       result |-> r.ret, cls |-> "", calls |-> r.calls]
    /\ UNCHANGED <<pulser, piezo_position_ranges, piezo_voltage_ranges, piezo>>

SetUpScannerClock ==
    /\ call.op = "idle"
    /\ piezo.connected
    /\ \E clock_frequency \in ClockFrequencies, clock_channel \in Channels,
          g \in GalvoHows :
          LET r == set_up_scanner_clock(clock_frequency, clock_channel, piezo, g)
          IN  call' = [op |-> "set_up_scanner_clock",
                       args |-> <<clock_frequency, clock_channel>>,
                       result |-> r.ret, cls |-> "", calls |-> r.calls]
    /\ UNCHANGED <<pulser, piezo_position_ranges, piezo_voltage_ranges, piezo>>

SetUpScanner ==
    /\ call.op = "idle"
    /\ piezo.connected
    /\ \E counter_channels \in Channels, sources \in Channels,
          clock_channel \in Channels, scanner_ao_channels \in Channels,
          g \in GalvoHows :
          LET r == set_up_scanner(counter_channels, sources, clock_channel,
                                  scanner_ao_channels, piezo, g)
          IN  call' = [op |-> "set_up_scanner",
                       args |-> <<counter_channels, sources, clock_channel,
                                  scanner_ao_channels>>,
                       result |-> r.ret, cls |-> "", calls |-> r.calls]
    /\ UNCHANGED <<pulser, piezo_position_ranges, piezo_voltage_ranges, piezo>>

\* close_scanner that disconnects the piezo as well
CloseScanner_disconnects ==
    /\ call.op = "idle"
    /\ piezo.connected
    /\ \E g \in GalvoHows :
          LET r == close_scanner(piezo, g)
          IN  call' = [op |-> "close_scanner", args |-> <<>>,
                       result |-> r.ret, cls |-> "",
                       calls |-> Append(r.calls,
                                        HwCall("piezo", "CloseConnection", <<>>,
                                               PyNone, piezo.svo))]
    /\ piezo' = [piezo EXCEPT !.connected = FALSE]
    /\ UNCHANGED <<pulser, piezo_position_ranges, piezo_voltage_ranges>>

CloseScanner ==
    /\ call.op = "idle"
    /\ piezo.connected
    /\ \E g \in GalvoHows :
          LET r == close_scanner(piezo, g)
          IN  call' = [op |-> "close_scanner", args |-> <<>>,
                       result |-> r.ret, cls |-> "", calls |-> r.calls]
    /\ UNCHANGED <<pulser, piezo_position_ranges, piezo_voltage_ranges, piezo>>

CloseScannerClock ==
    /\ call.op = "idle"
    /\ piezo.connected
    /\ \E g \in GalvoHows :
          LET r == close_scanner_clock(piezo, g)
          IN  call' = [op |-> "close_scanner_clock", args |-> <<>>,
                       result |-> r.ret, cls |-> "", calls |-> r.calls]
    /\ UNCHANGED <<pulser, piezo_position_ranges, piezo_voltage_ranges, piezo>>

ResetHardware ==
    /\ call.op = "idle"
    /\ piezo.connected
    /\ \E g \in GalvoHows, c \in {"ok", "raise"} :
          LET r == reset_hardware(piezo, g, c)
          IN  /\ call' = [op |-> "reset_hardware", args |-> <<g, c>>,
                          result |-> r.ret, cls |-> "", calls |-> r.calls]
              /\ piezo' = r.pz
    /\ UNCHANGED <<pulser, piezo_position_ranges, piezo_voltage_ranges>>

OnDeactivate ==
    /\ call.op = "idle"
    /\ piezo.connected
    /\ \E g \in GalvoHows, c \in {"ok", "raise"} :
          LET r == on_deactivate(piezo, g, c)
          IN  /\ call' = [op |-> "on_deactivate", args |-> <<g, c>>,
                          result |-> r.ret, cls |-> "", calls |-> r.calls]
              /\ piezo' = r.pz
    /\ UNCHANGED <<pulser, piezo_position_ranges, piezo_voltage_ranges>>

\* on_activate after a reset: a new GCSDevice, connected again
OnActivate ==
    /\ call.op = "idle"
    /\ ~piezo.connected
    /\ piezo' = [piezo EXCEPT !.connected = TRUE]
    /\ call' = [op |-> "on_activate", args |-> <<>>, result |-> PyNone,
                cls |-> "", calls |-> <<HwCall("piezo", "ConnectUSB", <<>>,
                                               PyNone, piezo.svo)>>]
    /\ UNCHANGED <<pulser, piezo_position_ranges, piezo_voltage_ranges>>

Next ==
    \/ ScanLine
    \/ ScannerSetPosition
    \/ SetPositionRange
    \/ SetVoltageRange
    \/ GetPositionRange
    \/ GetScannerPosition
    \/ SetUpScannerClock
    \/ SetUpScanner
    \/ CloseScanner
    \/ CloseScannerClock
    \/ ResetHardware
    \/ OnDeactivate
    \/ OnActivate
    \/ Discard

Spec == Init /\ [][Next]_vars

\* a caller that makes scan_line calls only: the stored ranges stay as
\* configured
ScanNext ==
    \/ ScanLine
    \/ Discard

ScanSpec == Init /\ [][ScanNext]_vars

----------------------------------------------------------------------------
(***************************************************************************)
(* The two conversions on their own, in float arithmetic.  A run starts    *)
(* from a reading of the piezo (unit "pi": 0, 1, ... 100) or from a qudi   *)
(* position (unit "qudi": the floats of the literals -50e-6, -49e-6, ...   *)
(* 50e-6) and converts it to and fro.  `call` holds the number the run     *)
(* started from (args), the value in hand (result), its unit (cls) and the *)
(* conversions applied so far (calls).                                     *)
(***************************************************************************)

\* the piezo's travel: "The piezo range is 0-100 um according to PI"
PiezoTravel == 100

\* conversions applied in a row
MaxConversions == 2

\* the float a run starts from
StartValue(unit, n) ==
    IF unit = "pi" THEN FloatOfInt(n) ELSE FloatOfRatio(n, MicronsPerMeter)

ConvInit ==
    /\ pulser = PulserConstructed
    /\ piezo_position_ranges = [nested |-> FALSE, iv |-> RangeA]
    /\ piezo_voltage_ranges = [nested |-> FALSE, iv |-> RangeA]
    /\ piezo = [connected |-> TRUE, svo |-> TRUE, sva |-> <<>>]
    /\ \/ \E n \in 0..PiezoTravel :
             call = [op |-> "idle", args |-> <<"pi", n>>,
                     result |-> PyFloat(StartValue("pi", n)),
                     cls |-> "pi", calls |-> <<>>]
       \/ \E n \in (0 - PiezoOffset)..(PiezoTravel - PiezoOffset) :
             call = [op |-> "idle", args |-> <<"qudi", n>>,
                     result |-> PyFloat(StartValue("qudi", n)),
                     cls |-> "qudi", calls |-> <<>>]

PiPositionToQudiPosition ==
    /\ call.cls = "pi"
    /\ Len(call.calls) < MaxConversions
    /\ call' = [call EXCEPT
                   !.op = "_piezo_pi_position_to_qudi_position",
                   !.result = PyFloat(pi_position_to_qudi_position(@.val[1])),
                   !.cls = "qudi",
                   !.calls = Append(@, "_piezo_pi_position_to_qudi_position")]
    /\ UNCHANGED <<pulser, piezo_position_ranges, piezo_voltage_ranges, piezo>>

QudiPositionToPiVoltage ==
    /\ call.cls = "qudi"
    /\ Len(call.calls) < MaxConversions
    /\ call' = [call EXCEPT
                   !.op = "_piezo_qudi_position_to_pi_voltage",
                   !.result = PyFloat(qudi_position_to_pi_voltage(@.val[1])),
                   !.cls = "pi",
                   !.calls = Append(@, "_piezo_qudi_position_to_pi_voltage")]
    /\ UNCHANGED <<pulser, piezo_position_ranges, piezo_voltage_ranges, piezo>>

ConvNext ==
    \/ PiPositionToQudiPosition
    \/ QudiPositionToPiVoltage

ConvSpec == ConvInit /\ [][ConvNext]_vars

----------------------------------------------------------------------------
(***************************************************************************)
(* The Pulser on its own.  As above, a method is one action that leaves    *)
(* its record in `call` (cls is "Pulser") and the caller drops the record  *)
(* before the next call.  The scanner's variables stay as they start.      *)
(***************************************************************************)
MaxPeriod == 102

SequenceNames == {"clock"}
SequenceArgs == {"seq_a", "seq_b"}
NumRepeats == {-1, 1}
Periods == (ClockPulse - 2)..MaxPeriod
Readouts == {<<>>} \cup {<<r>> : r \in (-1)..(MaxPeriod + 1)}

PulserInit ==
    /\ piezo_position_ranges = [nested |-> FALSE, iv |-> RangeA]
    /\ piezo_voltage_ranges = [nested |-> FALSE, iv |-> RangeA]
    /\ piezo = [connected |-> TRUE, svo |-> TRUE, sva |-> <<>>]
    /\ call = NoCall
    /\ pulser = PulserConstructed

PulserCall(op, args, r) ==
    /\ call' = [op |-> op, args |-> args, result |-> r.ret,
                cls |-> "Pulser", calls |-> r.calls]
    /\ pulser' = r.p
    /\ UNCHANGED <<piezo_position_ranges, piezo_voltage_ranges, piezo>>

PulserOnActivate ==
    /\ call.op = "idle"
    /\ \E fail \in 0..2 :
          PulserCall("on_activate", <<>>, pulser_on_activate(pulser, fail))

\* del self.pulse_streamer: AttributeError if there is none
PulserOnDeactivate ==
    /\ call.op = "idle"
    /\ PulserCall("on_deactivate", <<>>,
                  IF pulser.pulse_streamer
                  THEN [p |-> [pulser EXCEPT !.pulse_streamer = FALSE],
                        ret |-> PyNone, calls |-> <<>>]
                  ELSE NoStreamer(pulser))

PulserOn ==
    /\ call.op = "idle"
    /\ \E fail \in 0..1 :
          PulserCall("pulser_on", <<>>, pulser_on(pulser, fail))

PulserOff ==
    /\ call.op = "idle"
    /\ \E fail \in 0..1 :
          PulserCall("pulser_off", <<>>, pulser_off(pulser, fail))

WriteSequence ==
    /\ call.op = "idle"
    /\ \E name \in SequenceNames, sequence \in SequenceArgs,
          numRepeat \in NumRepeats, fail \in 0..2 :
          PulserCall("write_sequence", <<name, sequence, numRepeat>>,
                     write_sequence(name, sequence, numRepeat, pulser, fail))

StreamImmediate ==
    /\ call.op = "idle"
    /\ \E sequence \in SequenceArgs, numRepeat \in NumRepeats, fail \in 0..3 :
          PulserCall("stream_immediate", <<sequence, numRepeat>>,
                     stream_immediate(sequence, numRepeat, pulser, fail))

GetContIllumClockSeq ==
    /\ call.op = "idle"
    /\ \E period \in Periods, readout \in Readouts :
          PulserCall("get_cont_illum_clock_seq", <<period, readout>>,
                     [p |-> pulser,
                      ret |-> PySequence(get_cont_illum_clock_seq(period,
                                                                  readout)),
                      calls |-> <<>>])

ContIllumClock ==
    /\ call.op = "idle"
    /\ \E period \in Periods, readout \in Readouts :
          PulserCall("cont_illum_clock", <<<<>>, period, readout>>,
                     [p |-> pulser,
                      ret |-> cont_illum_clock(<<>>, period, readout),
                      calls |-> <<>>])

PulserNext ==
    \/ PulserOnActivate
    \/ PulserOnDeactivate
    \/ PulserOn
    \/ PulserOff
    \/ WriteSequence
    \/ StreamImmediate
    \/ GetContIllumClockSeq
    \/ ContIllumClock
    \/ Discard

PulserSpec == PulserInit /\ [][PulserNext]_vars

----------------------------------------------------------------------------
(* Properties *)

\* every element equals the first
IsConst(s) == \A i \in 1..Len(s) : s[i] = s[1]

\* the finished call is a scan_line on an array of k >= 1 samples
ScannedArray ==
    /\ call.op = "scan_line"
    /\ ~call.args[1].none
    /\ IsArray(call.args[1])
    /\ Len(call.args[1].X) >= 1

PiezoCalls == {i \in 1..Len(call.calls) : call.calls[i].dev = "piezo"}
GalvoCalls == {i \in 1..Len(call.calls) : call.calls[i].dev = "galvo"}
Writes == {i \in PiezoCalls : call.calls[i].fn = "SVA"}

\* C1: a path of k >= 1 samples per axis is a LateralScan iff Z is constant,
\* a DepthScan iff Z varies and X and Y are both constant, and of unsupported
\* geometry in every other case.
C1_Classification ==
    ScannedArray =>
        LET p == call.args[1]
        IN  /\ (call.cls = "LateralScan") <=> IsConst(p.Z)
            /\ (call.cls = "DepthScan") <=>
                   (~IsConst(p.Z) /\ IsConst(p.X) /\ IsConst(p.Y))
            /\ (call.cls = "Invalid") <=>
                   (~IsConst(p.Z) /\ ~(IsConst(p.X) /\ IsConst(p.Y)))

\* a depth scan of the longest path has been classified
C1_Witness ==
    /\ ScannedArray
    /\ call.cls = "DepthScan"
    /\ Len(call.args[1].Z) = MaxLen

\* C6: every raw write (SVA) to the piezo comes right after a servo-disable
\* (SVO False) on the same axis that returned, nothing in between, and the
\* servo is off when the write arrives.
C6_ServoOffBeforeWrite ==
    \A i \in Writes :
        /\ i > 1
        /\ call.calls[i - 1].dev = "piezo"
        /\ call.calls[i - 1].fn = "SVO"
        /\ call.calls[i - 1].arg = <<call.calls[i].arg[1], FALSE>>
        /\ call.calls[i - 1].ret.kind # "raise"
        /\ call.calls[i].svo = FALSE

\* a write reached a piezo whose servo was on before the call
C6_Witness ==
    \E i \in Writes : i > 1 /\ call.calls[i - 1].svo = TRUE

\* C7: a path in which Z varies and X or Y varies makes scan_line return the
\* error value -1 with no call on the galvo or the piezo and no counts.
C7_InvalidGeometry ==
    (/\ ScannedArray
     /\ ~IsConst(call.args[1].Z)
     /\ (~IsConst(call.args[1].X) \/ ~IsConst(call.args[1].Y)))
    => /\ call.result = PyInt(-1)
       /\ call.calls = <<>>

\* such a path has been scanned: Z and Y vary
C7_Witness ==
    /\ ScannedArray
    /\ ~IsConst(call.args[1].Z)
    /\ ~IsConst(call.args[1].Y)
    /\ call.result.kind = "int"

\* C8: a path with constant Z makes exactly one call, the galvo's scan_line
\* with the (X, Y) rows and the caller's pixel_clock; scan_line gives back
\* what that call gave (or raised), and the piezo is not called.
C8_LateralPassThrough ==
    (ScannedArray /\ IsConst(call.args[1].Z))
    => /\ Len(call.calls) = 1
       /\ call.calls[1].dev = "galvo"
       /\ call.calls[1].fn = "scan_line"
       /\ call.calls[1].arg = << <<call.args[1].X, call.args[1].Y>>, call.args[2] >>
       /\ call.result = call.calls[1].ret
       /\ PiezoCalls = {}

\* a lateral scan with the pixel clock asked for has returned its counts
C8_Witness ==
    /\ ScannedArray
    /\ IsConst(call.args[1].Z)
    /\ ~IsConst(call.args[1].X)
    /\ call.args[2] = TRUE
    /\ call.result.kind = "counts"

\* C9: a path with zero samples, or whose X and Y rows differ in length,
\* makes scan_line fail (it raises) without any call on galvo or piezo.
C9_MalformedPath ==
    (/\ call.op = "scan_line"
     /\ ~call.args[1].none
     /\ (Len(call.args[1].X) = 0 \/ Len(call.args[1].X) # Len(call.args[1].Y)))
    => /\ call.result.kind = "raise"
       /\ call.calls = <<>>

\* a path whose X row is shorter than its Y row has been refused
C9_Witness ==
    /\ call.op = "scan_line"
    /\ ~call.args[1].none
    /\ Len(call.args[1].X) = 1
    /\ Len(call.args[1].Y) = 2
    /\ call.result.kind = "raise"

\* the i-th (1-based) call on the galvo, as a position in call.calls
RECURSIVE NthGalvoCall(_, _)
NthGalvoCall(n, from) ==
    IF call.calls[from].dev = "galvo"
    THEN IF n = 1 THEN from ELSE NthGalvoCall(n - 1, from + 1)
    ELSE NthGalvoCall(n, from + 1)

\* the voltage lies in the depth voltage range now stored
InVoltageRange(voltage) ==
    /\ piezo_voltage_ranges.iv[1] <= voltage
    /\ voltage <= piezo_voltage_ranges.iv[2]

\* no call on a device raised or gave an error status
NoDeviceFailure ==
    \A i \in 1..Len(call.calls) :
        /\ call.calls[i].ret.kind # "raise"
        /\ call.calls[i].ret.kind # "int"

\* the calls a depth scan of z_path at (x, y) is to make: for each index the
\* servo-disable, the write of the converted value, one 2-sample line scan
DepthScanCallsAre(x, y, z_path, pixel_clock) ==
    /\ Len(call.calls) = 3 * Len(z_path)
    /\ \A i \in 1..Len(z_path) :
          /\ call.calls[3 * i - 2].fn = "SVO"
          /\ call.calls[3 * i - 1].fn = "SVA"
          /\ call.calls[3 * i - 1].arg =
                 <<piezo_axis, _piezo_qudi_position_to_pi_voltage(z_path[i])>>
          /\ call.calls[3 * i].fn = "scan_line"
          /\ call.calls[3 * i].arg = << << <<x, x>>, <<y, y>> >>, pixel_clock >>

\* C2: a depth scan of length k whose depth values all convert to voltages
\* in the stored depth voltage range makes exactly k writes, in the order
\* Z[0..k-1], each followed by one 2-sample line scan before the next write
\* and before scan_line returns.  (Stated for the calls in which no device
\* call fails and the stored position range is a plain [low, high].)
C2_DepthScanOrder ==
    (/\ ScannedArray
     /\ call.cls = "DepthScan"
     /\ ~piezo_position_ranges.nested
     /\ NoDeviceFailure
     /\ \A i \in 1..Len(call.args[1].Z) :
            InVoltageRange(_piezo_qudi_position_to_pi_voltage(call.args[1].Z[i])))
    => /\ call.result.kind # "raise"
       /\ DepthScanCallsAre(call.args[1].X[1], call.args[1].Y[1],
                            call.args[1].Z, call.args[2])

\* C3: a depth scan of length k gives its caller k counts, the i-th being
\* the first sample of the i-th 2-sample acquisition.  (Stated for the scans
\* that end without an exception.)
C3_DepthScanCounts ==
    (/\ ScannedArray
     /\ call.cls = "DepthScan"
     /\ call.result.kind # "raise")
    => /\ call.result.kind = "counts"
       /\ Len(call.result.val) = Len(call.args[1].Z)
       /\ \A i \in 1..Len(call.args[1].Z) :
              call.result.val[i] = call.calls[NthGalvoCall(i, 1)].ret.val[1]

\* C4: every raw value written to the piezo (by an SVA that returned) lies
\* inside the depth voltage range stored when it is written.
C4_WritesInVoltageRange ==
    \A i \in Writes :
        call.calls[i].ret.kind # "raise" => InVoltageRange(call.calls[i].arg[2])

\* C5: a set_position whose z converts to a voltage outside the stored depth
\* voltage range makes no call on the piezo, raises nothing and returns the
\* status the galvo's set_position returned.  (Stated for the calls in which
\* the galvo returns a status and the stored position range is a plain
\* [low, high].)
C5_OutOfRangeSkipped ==
    (/\ call.op = "scanner_set_position"
     /\ ~piezo_position_ranges.nested
     /\ ~InVoltageRange(_piezo_qudi_position_to_pi_voltage(call.args[3]))
     /\ call.calls[1].ret.kind = "int")
    => /\ PiezoCalls = {}
       /\ call.result = call.calls[1].ret

\* C10: when the galvo's reset fails (error status or exception) and the
\* piezo's disconnect would succeed, reset_hardware still makes and completes
\* the disconnect and reports failure.
C10_ResetBestEffort ==
    (/\ call.op = "reset_hardware"
     /\ call.args[1] \in {"err", "raise"}
     /\ call.args[2] = "ok")
    => /\ \E i \in PiezoCalls : /\ call.calls[i].fn = "CloseConnection"
                                /\ call.calls[i].ret.kind # "raise"
       /\ ~piezo.connected
       /\ call.result \in {PyInt(-1), PyRaise("HardwareError")}

\* the result tells the caller of a failure: an exception, or a status
\* other than 0
ReportsFailure(result) ==
    \/ result.kind = "raise"
    \/ result.kind = "int" /\ result.val # <<0>>

\* a step of the reset failed: the galvo's reset (status -1 or exception),
\* or the piezo's CloseConnection when it was reached
ResetStepFailed ==
    \/ call.args[1] # "ok"
    \/ call.args[2] # "ok"

C13_ThreeIntervals ==
    (call.op = "get_position_range" /\ call.result.kind = "list")
    => /\ Len(call.result.val) = 3
       /\ \A i \in 1..Len(call.result.val) : Len(call.result.val[i]) = 2
       /\ SubSeq(call.result.val, 1, 2) = call.calls[1].ret.val
       /\ call.result.val[3] = piezo_position_ranges.iv

\* the calls of the finished operation that reported a failure: an
\* exception, or the status -1
FailedCalls ==
    {i \in 1..Len(call.calls) : ReportsFailure(call.calls[i].ret)}

\* C14: when a collaborator call made during set_position, a range setter
\* or scan_line reports a failure, the controller's result is that failure
\* (looked at with the depth range stored as [lo, hi], so that the clamp of
\* _set_piezo_position does not raise by itself).
C14_FailurePropagated ==
    (/\ call.op \in {"scanner_set_position", "set_position_range",
                     "set_voltage_range", "scan_line"}
     /\ ~piezo_position_ranges.nested
     /\ FailedCalls # {})
    => \E i \in FailedCalls : call.result = call.calls[i].ret

\* C16: during a DepthScan every galvo call is a line scan of exactly two
\* samples, both (X[0], Y[0]), with the caller's pixel_clock; the galvo is
\* given no other call.
C16_DepthScanStaysAtXY ==
    (call.op = "scan_line" /\ call.cls = "DepthScan")
    => \A i \in GalvoCalls :
          /\ call.calls[i].fn = "scan_line"
          /\ call.calls[i].arg[2] = call.args[2]
          /\ LET path == call.calls[i].arg[1]
             IN  /\ Len(path) = 2
                 /\ Len(path[1]) = 2 /\ Len(path[2]) = 2
                 /\ \A j \in 1..2 : /\ path[1][j] = call.args[1].X[1]
                                    /\ path[2][j] = call.args[1].Y[1]

\* a DepthScan off the origin in x only, with the pixel clock asked for,
\* that made two acquisitions
C16_Witness ==
    /\ call.op = "scan_line" /\ call.cls = "DepthScan"
    /\ call.args[1].X[1] # call.args[1].Y[1]
    /\ call.args[2] = TRUE
    /\ Cardinality(GalvoCalls) = 2

\* C17: when the acquisition for an index of a DepthScan reports a hardware
\* error, nothing is written or acquired for a later index, and scan_line
\* fails: it returns no counts.
C17_StopsAtFailedAcquisition ==
    (call.op = "scan_line" /\ call.cls = "DepthScan")
    => \A i \in GalvoCalls :
          ReportsFailure(call.calls[i].ret)
          => /\ i = Len(call.calls)
             /\ call.result.kind = "raise"

\* the first acquisition of a DepthScan over two depths reported an error
\* by its status, after the depth was written: the second depth was left out
C17_Witness ==
    /\ call.op = "scan_line" /\ call.cls = "DepthScan"
    /\ Len(call.args[1].Z) = 2
    /\ Cardinality(Writes) = 1
    /\ Cardinality(GalvoCalls) = 1
    /\ \E i \in GalvoCalls : call.calls[i].ret = PyInt(-1)
    /\ call.result.kind = "raise"

\* C19: get_scanner_position only reads: one position read of the galvo,
\* then one qPOS of the piezo, no SVO and no SVA; it returns the galvo's
\* x and y followed by the reading brought back to metres about 0.
C19_GetPositionOnlyReads ==
    call.op = "get_scanner_position"
    => /\ \A i \in 1..Len(call.calls) :
             /\ i = 1 => call.calls[i].dev = "galvo"
                         /\ call.calls[i].fn = "get_scanner_position"
             /\ i = 2 => call.calls[i].dev = "piezo" /\ call.calls[i].fn = "qPOS"
             /\ i <= 2
       /\ call.result.kind \in {"list", "raise"}
       /\ call.result.kind = "list" =>
             /\ Len(call.calls) = 2
             /\ Len(call.result.val) = 3
             /\ SubSeq(call.result.val, 1, 2) = call.calls[1].ret.val
             /\ call.result.val[3] * MicronsPerMeter
                    = call.calls[2].ret.val[1] - Fix(PiezoOffset)

\* a position was read with the piezo at 70: z comes back as 20e-6 m
C19_Witness ==
    /\ call.op = "get_scanner_position"
    /\ call.result.kind = "list"
    /\ call.calls[2].ret.val = <<Fix(70)>>
    /\ call.result.val[3] = 20

\* C18: the stored depth position range changes only in a
\* set_position_range call and the stored depth voltage range only in a
\* set_voltage_range call; every other call leaves both as they were.
C18_RangesChangeOnlyInSetters ==
    [][/\ piezo_position_ranges' # piezo_position_ranges
          => call'.op = "set_position_range"
       /\ piezo_voltage_ranges' # piezo_voltage_ranges
          => call'.op = "set_voltage_range"]_vars

\* set_voltage_range has stored its third interval, and the position range
\* is still the configured flat one, with another interval
C18_Witness ==
    /\ call.op = "set_voltage_range"
    /\ piezo_voltage_ranges = ThirdAsList(call.args[1])
    /\ ~piezo_position_ranges.nested
    /\ piezo_position_ranges.iv # piezo_voltage_ranges.iv

\* what the caller and the devices see of a scan_line call: its class, its
\* result and the calls on the devices with their arguments and returns
Seen(r) ==
    [cls |-> r.cls, ret |-> r.ret,
     calls |-> [i \in 1..Len(r.calls) |->
                   [dev |-> r.calls[i].dev, fn |-> r.calls[i].fn,
                    arg |-> r.calls[i].arg, ret |-> r.calls[i].ret]]]

\* the piezo as on_activate leaves it, nothing written yet
PiezoAsActivated == [connected |-> TRUE, svo |-> TRUE, sva |-> <<>>]

\* C20: with the stored ranges fixed, a scan_line call does the same
\* whatever scan_line calls came before it: after any sequence of scan_line
\* calls, the next call with a given path and pixel_clock (the devices
\* answering alike) has the class and the sequence of hardware calls it
\* would have had as the first call.
C20_NoStateBetweenCalls ==
    call.op = "idle"
    => \A line_path \in Paths, pixel_clock \in BOOLEAN :
       \A env \in {e \in Envs(Len(line_path.Z)) : EnvOk(e)} :
          Seen(scan_line(line_path, pixel_clock, piezo,
                         piezo_position_ranges, env))
          = Seen(scan_line(line_path, pixel_clock, PiezoAsActivated,
                           piezo_position_ranges, env))

\* between two calls: an earlier DepthScan has written a depth and switched
\* the servo off, and the next call is about to be made
C20_Witness ==
    /\ call.op = "idle"
    /\ piezo.sva # <<>>
    /\ ~piezo.svo

\* |a - b| < 2^p, for floats a and b
Within(a, b, p) ==
    LET d == ExactSum(a, [b EXCEPT !.neg = (b.m # <<>>) /\ ~b.neg])
    IN  d.m = <<>> \/ BitLen(d.m) + d.e <= p

\* the float the run of conversions started from
Started == StartValue(call.args[1], call.args[2])

\* C12 as claimed: a reading converted to metres and back is the reading
\* again, and a position converted to a voltage and back is the position
\* again.
C12_RoundTripExact ==
    Len(call.calls) = 2 => call.result.val[1] = Started

\* C12 as amended: the round trip gives the value again up to the rounding
\* of the float operations: within 2^-30 (< 1e-9) of a reading, within
\* 2^-50 (< 1e-15 m) of a position.
C12_RoundTripWithinRounding ==
    Len(call.calls) = 2
    => IF call.args[1] = "pi"
       THEN Within(call.result.val[1], Started, -30)
       ELSE Within(call.result.val[1], Started, -50)

\* the reading 0 has gone to metres and back and is not 0 again
C12_Witness ==
    /\ call.args = <<"pi", 0>>
    /\ Len(call.calls) = 2
    /\ call.result.val[1] # Started

\* C15: the voltage is position * 10^6 + 50: the position n microns, for n
\* from -50 to 50, gives exactly the voltage n + 50 (-50 um gives 0, 0 m
\* gives 50, +50 um gives 100); the reverse conversion takes the reading v
\* to (v - 50) * 10^-6 m, 50 to 0 m exactly.
C15_AffineMap ==
    Len(call.calls) = 1
    => IF call.args[1] = "qudi"
       THEN call.result.val[1] = FloatOfInt(call.args[2] + PiezoOffset)
       ELSE /\ Within(call.result.val[1],
                      FloatOfRatio(call.args[2] - PiezoOffset, MicronsPerMeter),
                      -60)
            /\ call.args[2] = PiezoOffset => call.result.val[1] = FloatZero

\* the low end of the range, -50e-6 m, has been converted: the voltage is 0
C15_Witness ==
    /\ call.args = <<"qudi", 0 - PiezoOffset>>
    /\ call.calls = <<"_piezo_qudi_position_to_pi_voltage">>
    /\ call.result.val[1] = FloatZero

\* C21: a DepthScan of length k that meets no hardware error makes exactly
\* k lateral acquisitions and at most k depth writes: an index whose write
\* is skipped is still acquired.
C21_SkippedWriteStillAcquires ==
    (/\ ScannedArray
     /\ call.cls = "DepthScan"
     /\ NoDeviceFailure)
    => /\ Cardinality(GalvoCalls) = Len(call.args[1].Z)
       /\ Cardinality(Writes) <= Len(call.args[1].Z)

\* C22: set_up_scanner and set_up_scanner_clock each make one call of the
\* same name on the galvo, with the caller's arguments unchanged, and return
\* what it returns.
C22_SetUpForwardsArguments ==
    call.op \in {"set_up_scanner", "set_up_scanner_clock"}
    => /\ Len(call.calls) = 1
       /\ call.calls[1].dev = "galvo"
       /\ call.calls[1].fn = call.op
       /\ call.calls[1].arg = call.args
       /\ call.result = call.calls[1].ret

\* C23: close_scanner and close_scanner_clock each make exactly one call,
\* the galvo's of the same name, return its status unchanged, and make no
\* call on the piezo: its servo flag, its last written value and its
\* connection stay as they were.
C23_ClosePassThrough ==
    [][call'.op \in {"close_scanner", "close_scanner_clock"}
       => /\ Len(call'.calls) = 1
          /\ call'.calls[1].dev = "galvo"
          /\ call'.calls[1].fn = call'.op
          /\ call'.result = call'.calls[1].ret
          /\ piezo' = piezo]_vars

\* the clock was closed with the galvo reporting an error, after a depth
\* had been written to the piezo
C23_Witness ==
    /\ call.op = "close_scanner_clock"
    /\ call.result = PyInt(-1)
    /\ Len(call.calls) = 1
    /\ piezo.sva # <<>>
    /\ piezo.connected

\* the call returned to its caller instead of raising
Returned(c) == c.result.kind # "raise"

SetsStatus(c, ops) == c.op \in ops /\ c.cls = "Pulser" /\ Returned(c)

DeviceFns(c) == {c.calls[i].fn : i \in 1..Len(c.calls)}

RECURSIVE TrainDuration(_)
TrainDuration(train) ==
    IF train = <<>> THEN 0 ELSE train[1][1] + TrainDuration(Tail(train))

Durations(train) == {train[i][1] : i \in 1..Len(train)}

\* C25: whenever get_cont_illum_clock_seq was given an integer period >= 100
\* and a readout that is None or between 0 and the period, every train of
\* the sequence it built has only non-negative durations and they add up to
\* the period; and, for every input, the sequence has the clock and the AOM
\* train, and the counter-gate train exactly when readout is not None.
C25_TrainsFillThePeriod ==
    (call.op = "get_cont_illum_clock_seq")
    => LET period == call.args[1]
           readout == call.args[2]
           seq == call.result.val
       IN  /\ DOMAIN seq = {_clock_channel, _green_aom_channel}
                 \cup (IF readout # <<>> THEN {_counter_gate_channel} ELSE {})
           /\ (/\ period >= 100
               /\ readout # <<>> => (0 <= readout[1] /\ readout[1] <= period))
              => \A c \in DOMAIN seq :
                    /\ \A d \in Durations(seq[c]) : d >= 0
                    /\ TrainDuration(seq[c]) = period

C25_Witness ==
    /\ call.op = "get_cont_illum_clock_seq"
    /\ call.args = <<101, <<101>>>>
    /\ call.result.val[_counter_gate_channel] = <<<<0, _low>>, <<101, _high>>>>
    /\ call.result.val[_clock_channel] = <<<<100, _high>>, <<1, _low>>>>

====
